---- MODULE Spec2Model ----
(***************************************************************************)
(* Model of the geometric core of yart:                                    *)
(*   - geometries/bounding_box.rs      BoundingBox (AABB) value operations *)
(*   - geometries/bounding_geometry.rs BoundingGeometry::intersect         *)
(*   - scene.rs                        Scene::cast_ray_color and           *)
(*                                     Scene::cast_ray_distance            *)
(*                                                                         *)
(* Three specifications share the variables:                               *)
(*   Spec            the scene evaluator (recursive ray casting)           *)
(*   SpecBox         one method call on a constructed BoundingBox          *)
(*   SpecFromPoints  BoundingBox::from_points over a sequence of points    *)
(*   SpecRay         BoundingBox::ray_intersects of a normal box and a ray *)
(***************************************************************************)
EXTENDS Integers, Sequences, FiniteSets

VARIABLES
    stack,          \* Scene: activations of cast_ray_color whose material is running
    call,           \* Scene: what the latest step of the evaluator did
    bounding_box,   \* BoundingBox: the value `self` (minimum, maximum)
    box_call        \* BoundingBox: the latest call made on it

vars == <<stack, call, bounding_box, box_call>>

-----------------------------------------------------------------------------
(* Bounds of the model.                                                    *)

\* Finite coordinates are 0..MaxCoord.
MaxCoord == 1

\* from_points is given sequences of at most MaxPoints points.
MaxPoints == 3

-----------------------------------------------------------------------------
(* Real and Vector3.  Real values are the finite coordinates together with *)
(* the two signed infinities: an infinity is a value beyond every finite   *)
(* one.  The slab test also produces differences of coordinates (all of    *)
(* magnitude at most MaxCoord, so still below Infinity) and NaN.           *)

Infinity == MaxCoord + 1

\* The IEEE 754 not-a-number: it compares false with everything.
NaN == Infinity + 1

Coords == 0..MaxCoord

Real == Coords \cup {Infinity, -Infinity}

IsInfinite(a) == a = Infinity \/ a = -Infinity

\* f32::min / f64::min: when one argument is NaN the other is returned.
Real_min(a, b) ==
    IF a = NaN THEN b ELSE IF b = NaN THEN a ELSE IF b < a THEN b ELSE a

\* f32::max / f64::max: when one argument is NaN the other is returned.
Real_max(a, b) ==
    IF a = NaN THEN b ELSE IF b = NaN THEN a ELSE IF b > a THEN b ELSE a

\* a >= b on floats: false when either side is NaN.
Real_ge(a, b) == a # NaN /\ b # NaN /\ a >= b

\* a <= b on floats: false when either side is NaN.
Real_le(a, b) == a # NaN /\ b # NaN /\ a <= b

\* a - b on floats: infinity minus the same infinity is NaN.
Real_sub(a, b) ==
    IF a = NaN \/ b = NaN THEN NaN
    ELSE IF IsInfinite(a) THEN (IF a = b THEN NaN ELSE a)
    ELSE IF IsInfinite(b) THEN -b
    ELSE a - b

\* a * b on floats: zero times an infinity is NaN, an infinity times a
\* non-zero value is the infinity of the product's sign.
Real_mul(a, b) ==
    IF a = NaN \/ b = NaN THEN NaN
    ELSE IF IsInfinite(a) \/ IsInfinite(b)
         THEN IF a = 0 \/ b = 0 THEN NaN
              ELSE IF (a > 0) = (b > 0) THEN Infinity ELSE -Infinity
         ELSE a * b

\* 1.0 / v for v in {-1, -0.0, +0.0, 1}: the reciprocal of a zero is the
\* infinity of the zero's sign.
Real_recip(v, negative_zero) ==
    IF v = 0 THEN (IF negative_zero THEN -Infinity ELSE Infinity) ELSE v

Vector3_new(vx, vy, vz) == [x |-> vx, y |-> vy, z |-> vz]

Vector3_from_value(v) == Vector3_new(v, v, v)

Vector3_new_infinity == Vector3_from_value(Infinity)

Vector3_neg(v) == Vector3_new(-v.x, -v.y, -v.z)

Vector3_min(a, b) == Vector3_new(Real_min(a.x, b.x), Real_min(a.y, b.y), Real_min(a.z, b.z))

Vector3_max(a, b) == Vector3_new(Real_max(a.x, b.x), Real_max(a.y, b.y), Real_max(a.z, b.z))

Vector3_sub(a, b) == Vector3_new(Real_sub(a.x, b.x), Real_sub(a.y, b.y), Real_sub(a.z, b.z))

Vector3_component_mul(a, b) ==
    Vector3_new(Real_mul(a.x, b.x), Real_mul(a.y, b.y), Real_mul(a.z, b.z))

\* The finite points.
Points == [x : Coords, y : Coords, z : Coords]

\* Ray::new: origin, direction and the per-axis reciprocal of the direction,
\* computed once.  `negative_zero` tells, per axis, whether a zero component
\* of the direction is -0.0.
Ray_new(position, direction, negative_zero) ==
    [position |-> position,
     direction |-> direction,
     inverse_direction |->
        Vector3_new(Real_recip(direction.x, negative_zero.x),
                    Real_recip(direction.y, negative_zero.y),
                    Real_recip(direction.z, negative_zero.z))]

\* Direction components: -1, a zero of either sign, 1.
DirectionComponents == {-1, 0, 1}

\* Every ray from a finite origin with a non-zero direction.
SlabRays ==
    {Ray_new(position, direction, negative_zero) :
        position \in Points,
        direction \in [x : DirectionComponents, y : DirectionComponents,
                       z : DirectionComponents] \ {Vector3_from_value(0)},
        negative_zero \in [x : BOOLEAN, y : BOOLEAN, z : BOOLEAN]}

-----------------------------------------------------------------------------
(* BoundingBox (geometries/bounding_box.rs).                               *)

new(minimum, maximum) == [minimum |-> minimum, maximum |-> maximum]

new_infinity == new(Vector3_neg(Vector3_new_infinity), Vector3_new_infinity)

new_inverse_infinity_swapped == new(Vector3_neg(Vector3_new_infinity), Vector3_new_infinity)

new_inverse_infinity == new(Vector3_new_infinity, Vector3_neg(Vector3_new_infinity))

\* #[derive(Default)]: both corners at the origin.
BoundingBox_default == new(Vector3_from_value(0), Vector3_from_value(0))

\* The loop of from_points: points[i..] folded into the accumulators.
RECURSIVE FromPointsLoop(_, _, _, _)
FromPointsLoop(points, i, minimum, maximum) ==
    IF i > Len(points)
    THEN new(minimum, maximum)
    ELSE FromPointsLoop(points, i + 1,
                        Vector3_min(minimum, points[i]),
                        Vector3_max(maximum, points[i]))

from_points_zero_seed(points) ==
    FromPointsLoop(points, 1, Vector3_from_value(0), Vector3_from_value(0))

from_points(points) ==
    FromPointsLoop(points, 1, Vector3_new_infinity, Vector3_neg(Vector3_new_infinity))

add_point(self, point) ==
    new(Vector3_min(point, self.minimum), Vector3_max(point, self.maximum))

add_bounding_box_max_only(self, other_bounding_box) ==
    new(self.minimum, Vector3_max(other_bounding_box.maximum, self.maximum))

add_bounding_box(self, other_bounding_box) ==
    new(Vector3_min(other_bounding_box.minimum, self.minimum),
        Vector3_max(other_bounding_box.maximum, self.maximum))

contains_point(self, point) ==
    /\ point.x >= self.minimum.x
    /\ point.y >= self.minimum.y
    /\ point.z >= self.minimum.z
    /\ point.x <= self.maximum.x
    /\ point.y <= self.maximum.y
    /\ point.z <= self.maximum.z

contains_bounding_box_strict(self, b) ==
    /\ b.minimum.x > self.minimum.x
    /\ b.minimum.x <= self.maximum.x
    /\ b.maximum.x >= self.minimum.x
    /\ b.maximum.x < self.maximum.x
    /\ b.minimum.y > self.minimum.y
    /\ b.minimum.y <= self.maximum.y
    /\ b.maximum.y >= self.minimum.y
    /\ b.maximum.y < self.maximum.y
    /\ b.minimum.z > self.minimum.z
    /\ b.minimum.z <= self.maximum.z
    /\ b.maximum.z >= self.minimum.z
    /\ b.maximum.z < self.maximum.z

contains_bounding_box(self, b) ==
    /\ b.minimum.x >= self.minimum.x
    /\ b.minimum.x <= self.maximum.x
    /\ b.maximum.x >= self.minimum.x
    /\ b.maximum.x <= self.maximum.x
    /\ b.minimum.y >= self.minimum.y
    /\ b.minimum.y <= self.maximum.y
    /\ b.maximum.y >= self.minimum.y
    /\ b.maximum.y <= self.maximum.y
    /\ b.minimum.z >= self.minimum.z
    /\ b.minimum.z <= self.maximum.z
    /\ b.maximum.z >= self.minimum.z
    /\ b.maximum.z <= self.maximum.z

overlaps_bounding_box_min_to_min(self, b) ==
    /\ b.minimum.x <= self.minimum.x
    /\ b.maximum.x >= self.minimum.x
    /\ b.minimum.y <= self.minimum.y
    /\ b.maximum.y >= self.minimum.y
    /\ b.minimum.z <= self.minimum.z
    /\ b.maximum.z >= self.minimum.z

overlaps_bounding_box(self, b) ==
    /\ b.minimum.x <= self.maximum.x
    /\ b.maximum.x >= self.minimum.x
    /\ b.minimum.y <= self.maximum.y
    /\ b.maximum.y >= self.minimum.y
    /\ b.minimum.z <= self.maximum.z
    /\ b.maximum.z >= self.minimum.z

\* BoundingBox::ray_intersects (the inherent method): the slab test.
ray_intersects(self, ray) ==
    LET min == Vector3_component_mul(Vector3_sub(self.minimum, ray.position),
                                     ray.inverse_direction)
        max == Vector3_component_mul(Vector3_sub(self.maximum, ray.position),
                                     ray.inverse_direction)
        exit_distance ==
            Real_min(Real_min(Real_max(min.x, max.x), Real_max(min.y, max.y)),
                     Real_max(min.z, max.z))
        entrance_distance ==
            Real_max(Real_max(Real_min(min.x, max.x), Real_min(min.y, max.y)),
                     Real_min(min.z, max.z))
    IN  Real_ge(exit_distance, 0) /\ Real_le(entrance_distance, exit_distance)

\* impl BoundingVolume for BoundingBox: ray_intersects, the same slab test.
BoundingVolume_ray_intersects(self, ray) ==
    LET min == Vector3_component_mul(Vector3_sub(self.minimum, ray.position),
                                     ray.inverse_direction)
        max == Vector3_component_mul(Vector3_sub(self.maximum, ray.position),
                                     ray.inverse_direction)
        exit_distance ==
            Real_min(Real_min(Real_max(min.x, max.x), Real_max(min.y, max.y)),
                     Real_max(min.z, max.z))
        entrance_distance ==
            Real_max(Real_max(Real_min(min.x, max.x), Real_min(min.y, max.y)),
                     Real_min(min.z, max.z))
    IN  Real_ge(exit_distance, 0) /\ Real_le(entrance_distance, exit_distance)

\* Every box the constructors build from finite corners (ordered or not),
\* and the two degenerate boxes.
Boxes == {new(p, q) : p \in Points, q \in Points} \cup {new_infinity, new_inverse_infinity}

\* minimum <= maximum on every axis.
IsNormal(b) ==
    /\ b.minimum.x <= b.maximum.x
    /\ b.minimum.y <= b.maximum.y
    /\ b.minimum.z <= b.maximum.z

IsFinite(b) == b.minimum \in Points /\ b.maximum \in Points

-----------------------------------------------------------------------------
(* Scene (scene.rs) and BoundingGeometry (geometries/bounding_geometry.rs).*)
(*                                                                         *)
(* Rays and colours are opaque values.  The collaborators that the source  *)
(* reaches through trait objects (the bounding volumes, the leaf geometry, *)
(* the materials) answer nondeterministically: every answer they can give  *)
(* is an input of the step that asks.  Each step records the calls it made *)
(* on the collaborators, as the sequence of the arguments it passed.       *)

\* The recursion ceiling of cast_ray_color.
MaxTraceDepth == 7

\* A top-level caller passes a depth in 0..MaxStartDepth.
MaxStartDepth == 9

\* Rays are 1..NumRays.
NumRays == 2

\* Colours are 0..MaxColor.
MaxColor == 2

\* Entrance distances are -1..MaxDistance.
MaxDistance == 1

\* The root geometry is NumWrappers nested BoundingGeometry around one leaf.
NumWrappers == 2

Rays == 1..NumRays

Colors == 0..MaxColor

Color3_default == 0

Distances == -1..MaxDistance

\* Scene.materials: the ordered collection hit records index into.
materials == <<"material0", "material1">>

\* Index values (usize) a hit record can carry: every valid index and one
\* beyond the end of the collection.
MaterialIndices == 0..Len(materials)

\* Vec::get at a zero-based index: <<index>> for Some, <<>> for None.
materials_get(index) == IF index < Len(materials) THEN <<index>> ELSE <<>>

\* Option<Intersection>::None.
NoIntersection ==
    [hit |-> FALSE, entrance_distance |-> 0, material_index_override |-> 0,
     hit_geometry |-> [material_index |-> 0]]

\* Option<Intersection>::Some(_).
Intersections ==
    [hit : {TRUE}, entrance_distance : Distances, material_index_override : MaterialIndices,
     hit_geometry : [material_index : MaterialIndices]]

LeafResults == Intersections \cup {NoIntersection}

\* What the bounding volumes of the nested wrappers answer, outermost first.
VolumeAnswers == [1..NumWrappers -> BOOLEAN]

\* MissShader::calculate_color: a colour that depends on the ray it is given.
MissShader_calculate_color(ray) == ray

\* intersect of the wrapper at `level` (1 is the root; the child of the
\* innermost wrapper is the leaf).  Besides the result it reports the calls
\* made: the volume queries in order, and the rays handed to the leaf.
RECURSIVE BoundingGeometry_intersect_always_delegates(_, _, _, _)
BoundingGeometry_intersect_always_delegates(level, ray, volume_hits, leaf_result) ==
    IF level > NumWrappers
    THEN [result |-> leaf_result, volume_queries |-> <<>>,
          leaf_calls |-> <<ray>>, leaf_result |-> leaf_result]
    ELSE LET child == BoundingGeometry_intersect_always_delegates(level + 1, ray, volume_hits, leaf_result)
         IN  [child EXCEPT !.volume_queries =
                  <<[ray |-> ray, hit |-> volume_hits[level]]>> \o child.volume_queries]

RECURSIVE BoundingGeometry_intersect(_, _, _, _)
BoundingGeometry_intersect(level, ray, volume_hits, leaf_result) ==
    IF level > NumWrappers
    THEN [result |-> leaf_result, volume_queries |-> <<>>,
          leaf_calls |-> <<ray>>, leaf_result |-> leaf_result]
    ELSE IF volume_hits[level]
         THEN LET child == BoundingGeometry_intersect(level + 1, ray, volume_hits, leaf_result)
              IN  [child EXCEPT !.volume_queries =
                       <<[ray |-> ray, hit |-> TRUE]>> \o child.volume_queries]
         ELSE [result |-> NoIntersection,
               volume_queries |-> <<[ray |-> ray, hit |-> FALSE]>>,
               leaf_calls |-> <<>>, leaf_result |-> NoIntersection]

\* self.root_geometry.intersect(ray)
root_geometry_intersect(ray, volume_hits, leaf_result) ==
    BoundingGeometry_intersect(1, ray, volume_hits, leaf_result)

\* Every way root_geometry.intersect(ray) can go, over all the answers of the
\* volumes and of the leaf.
RootProbes ==
    [ray \in Rays |->
        {root_geometry_intersect(ray, volume_hits, leaf_result) :
            volume_hits \in VolumeAnswers, leaf_result \in LeafResults}]

\* The record of a step in which nothing was called.
NoCall ==
    [kind |-> "none", ray |-> 0, depth |-> 0, outcome |-> "none",
     volume_queries |-> <<>>, leaf_calls |-> <<>>,
     leaf_result |-> NoIntersection, intersection |-> NoIntersection,
     normal_calls |-> 0, material_calls |-> <<>>, miss_calls |-> <<>>,
     material_color |-> Color3_default,
     returned |-> FALSE, result_some |-> FALSE, result |-> 0]

depth_exceeded_off_by_one(depth) == depth > MaxTraceDepth + 1

\* scene.rs:42
depth_exceeded(depth) == depth > MaxTraceDepth

select_material_index_any_override(intersection_some) ==
    IF intersection_some.material_index_override >= 0
    THEN intersection_some.material_index_override
    ELSE intersection_some.hit_geometry.material_index

\* scene.rs:50-54: the index handed to self.materials.get
select_material_index(intersection_some) ==
    IF intersection_some.material_index_override > 0
    THEN intersection_some.material_index_override
    ELSE intersection_some.hit_geometry.material_index

\* scene.rs:49-74: the Some arm.  The normal is computed before the material
\* is matched; a resolved material is invoked with the caller's depth and the
\* call stays open until the material returns.
on_hit(entered, intersection_some) ==
    LET material == materials_get(select_material_index(intersection_some))
    IN  IF material # <<>>
        THEN [entered EXCEPT !.outcome = "material", !.normal_calls = 1,
                             !.material_calls =
                                 <<[material |-> material[1], depth |-> entered.depth]>>]
        ELSE [entered EXCEPT !.outcome = "no_material", !.normal_calls = 1,
                             !.returned = TRUE, !.result_some = TRUE,
                             !.result = Color3_default]

on_miss_default_color(entered) ==
    [entered EXCEPT !.outcome = "miss", !.returned = TRUE, !.result_some = TRUE,
                    !.result = Color3_default]

\* scene.rs:75: the None arm.
on_miss(entered) ==
    [entered EXCEPT !.outcome = "miss", !.miss_calls = <<entered.ray>>,
                    !.returned = TRUE, !.result_some = TRUE,
                    !.result = MissShader_calculate_color(entered.ray)]

\* Scene::cast_ray_color up to the point where it returns or hands over to
\* the material.  `probe` is how self.root_geometry.intersect(ray) goes if
\* it is called.
cast_ray_color(ray, depth, probe) ==
    LET entry == [NoCall EXCEPT !.kind = "cast_ray_color", !.ray = ray, !.depth = depth]
    IN  IF depth_exceeded(depth)
        THEN [entry EXCEPT !.outcome = "ceiling", !.returned = TRUE, !.result_some = TRUE,
                           !.result = Color3_default]
        ELSE LET entered == [entry EXCEPT !.volume_queries = probe.volume_queries,
                                          !.leaf_calls = probe.leaf_calls,
                                          !.leaf_result = probe.leaf_result,
                                          !.intersection = probe.result]
             IN  IF probe.result.hit
                 THEN on_hit(entered, probe.result)
                 ELSE on_miss(entered)

material_result_dropped(activation, color) ==
    [NoCall EXCEPT !.kind = "material_return", !.depth = activation.depth,
                   !.material_calls = <<activation>>, !.material_color = color,
                   !.returned = TRUE, !.result_some = TRUE, !.result = Color3_default]

\* scene.rs:63-71: the value of the material call is the value of the match,
\* and so of the activation of cast_ray_color that invoked the material.
material_result(activation, color) ==
    [NoCall EXCEPT !.kind = "material_return", !.depth = activation.depth,
                   !.material_calls = <<activation>>, !.material_color = color,
                   !.returned = TRUE, !.result_some = TRUE, !.result = color]

cast_ray_distance_unclamped(ray, probe) ==
    LET entered == [NoCall EXCEPT !.kind = "cast_ray_distance", !.ray = ray,
                                  !.volume_queries = probe.volume_queries,
                                  !.leaf_calls = probe.leaf_calls,
                                  !.leaf_result = probe.leaf_result,
                                  !.intersection = probe.result,
                                  !.returned = TRUE]
    IN  IF probe.result.hit
        THEN [entered EXCEPT !.outcome = "hit", !.result_some = TRUE,
                             !.result = probe.result.entrance_distance]
        ELSE [entered EXCEPT !.outcome = "miss"]

\* Scene::cast_ray_distance: `?` returns None on a miss.  `probe` is how
\* self.root_geometry.intersect(ray) goes.
cast_ray_distance(ray, probe) ==
    LET entered == [NoCall EXCEPT !.kind = "cast_ray_distance", !.ray = ray,
                                  !.volume_queries = probe.volume_queries,
                                  !.leaf_calls = probe.leaf_calls,
                                  !.leaf_result = probe.leaf_result,
                                  !.intersection = probe.result,
                                  !.returned = TRUE]
    IN  IF probe.result.hit
        THEN [entered EXCEPT !.outcome = "hit", !.result_some = TRUE,
                             !.result = Real_max(0, probe.result.entrance_distance)]
        ELSE [entered EXCEPT !.outcome = "miss"]

-----------------------------------------------------------------------------
(* The scene evaluator as a state machine.                                 *)
(*                                                                         *)
(* `stack` holds one entry per activation of cast_ray_color that has       *)
(* invoked its material and waits for it: the material's index and the     *)
(* depth it was given (innermost last).  The material call is the last     *)
(* thing cast_ray_color does (scene.rs:62-73), so these two values are all *)
(* such an activation still uses.  A running material may cast any ray at  *)
(* depth + 1, any number of times, and may return any colour.              *)

NoBoxCall == [op |-> "none", self |-> BoundingBox_default, arg |-> <<>>, ret |-> FALSE]

BoxIdle == bounding_box = BoundingBox_default /\ box_call = NoBoxCall

Init ==
    /\ stack = <<>>
    /\ call = NoCall
    /\ BoxIdle

\* The evaluator takes over after cast_ray_color ran up to `entered`.
Enter(entered) ==
    /\ call' = entered
    /\ stack' = IF entered.outcome = "material"
                THEN stack \o entered.material_calls
                ELSE stack
    /\ UNCHANGED <<bounding_box, box_call>>

\* A caller outside the evaluator calls cast_ray_color.
CastRayColor ==
    /\ stack = <<>>
    /\ \E ray \in Rays, depth \in 0..MaxStartDepth :
        \E probe \in RootProbes[ray] :
            Enter(cast_ray_color(ray, depth, probe))

\* The innermost running material calls scene.cast_ray_color(.., depth + 1).
MaterialCast ==
    /\ stack # <<>>
    /\ \E ray \in Rays :
        \E probe \in RootProbes[ray] :
            Enter(cast_ray_color(ray, stack[Len(stack)].depth + 1, probe))

\* The innermost running material returns a colour, and with it the
\* activation of cast_ray_color that invoked it.
MaterialReturn ==
    /\ stack # <<>>
    /\ \E color \in Colors :
            call' = material_result(stack[Len(stack)], color)
    /\ stack' = SubSeq(stack, 1, Len(stack) - 1)
    /\ UNCHANGED <<bounding_box, box_call>>

\* A caller outside the evaluator calls cast_ray_distance.
CastRayDistance ==
    /\ stack = <<>>
    /\ \E ray \in Rays :
        \E probe \in RootProbes[ray] :
            call' = cast_ray_distance(ray, probe)
    /\ UNCHANGED <<stack, bounding_box, box_call>>

Next ==
    \/ CastRayColor
    \/ MaterialCast
    \/ MaterialReturn
    \/ CastRayDistance

Spec == Init /\ [][Next]_vars

-----------------------------------------------------------------------------
(* One method call on a BoundingBox.  `box_call` records the method, the   *)
(* value of self before the call, the argument and the boolean returned;   *)
(* `bounding_box` is self after the call.                                  *)

InitBox ==
    /\ stack = <<>>
    /\ call = NoCall
    /\ bounding_box \in Boxes
    /\ box_call = NoBoxCall

\* No call has been made on the box yet.
BoxReady == box_call.op = "none"

BoxCall(op, arg, ret, self_after) ==
    /\ box_call' = [op |-> op, self |-> bounding_box, arg |-> arg, ret |-> ret]
    /\ bounding_box' = self_after
    /\ UNCHANGED <<stack, call>>

AddPoint ==
    /\ BoxReady
    /\ \E point \in Points :
        BoxCall("add_point", point, FALSE, add_point(bounding_box, point))

AddBoundingBox ==
    /\ BoxReady
    /\ \E other_bounding_box \in Boxes :
        BoxCall("add_bounding_box", other_bounding_box, FALSE,
                add_bounding_box(bounding_box, other_bounding_box))

ContainsPoint ==
    /\ BoxReady
    /\ \E point \in Points :
        BoxCall("contains_point", point, contains_point(bounding_box, point), bounding_box)

ContainsBoundingBox ==
    /\ BoxReady
    /\ \E b \in Boxes :
        BoxCall("contains_bounding_box", b, contains_bounding_box(bounding_box, b), bounding_box)

OverlapsBoundingBox ==
    /\ BoxReady
    /\ \E b \in Boxes :
        BoxCall("overlaps_bounding_box", b, overlaps_bounding_box(bounding_box, b), bounding_box)

NextBox ==
    \/ AddPoint
    \/ AddBoundingBox
    \/ ContainsPoint
    \/ ContainsBoundingBox
    \/ OverlapsBoundingBox

SpecBox == InitBox /\ [][NextBox]_vars

-----------------------------------------------------------------------------
(* BoundingBox::from_points over every sequence of at most MaxPoints       *)
(* finite points.                                                          *)

PointSeqs == UNION {[1..n -> Points] : n \in 0..MaxPoints}

FromPoints ==
    /\ BoxReady
    /\ \E points \in PointSeqs :
        BoxCall("from_points", points, FALSE, from_points(points))

NextFromPoints == FromPoints

SpecFromPoints == Init /\ [][NextFromPoints]_vars

-----------------------------------------------------------------------------
(* Properties of the scene evaluator (Spec).                               *)

\* The step was a call of cast_ray_color (its part before any material runs).
IsCastRayColor == call.kind = "cast_ray_color"

\* C1: cast_ray_color called with depth > 7 returns the default colour at
\* once: the root geometry is not intersected (no volume is queried, the
\* leaf is not asked), no material and no miss shader is invoked, whatever
\* the scene would have answered.
C1_DepthCeilingReturnsDefault ==
    (IsCastRayColor /\ call.depth > 7) =>
        /\ call.returned
        /\ call.result = Color3_default
        /\ call.volume_queries = <<>>
        /\ call.leaf_calls = <<>>
        /\ call.normal_calls = 0
        /\ call.material_calls = <<>>
        /\ call.miss_calls = <<>>

\* A nested call at depth 8, made by a material at depth 7, returned.
C1_Witness ==
    /\ IsCastRayColor
    /\ call.depth = 8
    /\ call.returned
    /\ stack # <<>>
    /\ stack[Len(stack)].depth = 7

\* The activations of cast_ray_color that are open: those waiting for their
\* material, and the one that just ran if it returned at once.
NestedCalls ==
    Len(stack) + (IF IsCastRayColor /\ call.outcome # "material" THEN 1 ELSE 0)

\* The depth the outermost open activation was called with.
StartDepth == IF stack # <<>> THEN stack[1].depth ELSE call.depth

\* C2: nesting is bounded by the depth ceiling.  Each nested activation has
\* the depth of its caller plus one, no activation that intersected the root
\* geometry has a depth above 7, and from depth 0 at most 9 activations
\* (depths 0 to 8) are ever open at once.
C2_NestingBounded ==
    /\ \A i \in DOMAIN stack :
          /\ stack[i].depth <= 7
          /\ i > 1 => stack[i].depth = stack[i - 1].depth + 1
    /\ (IsCastRayColor /\ stack # <<>> /\ call.outcome # "material") =>
          call.depth = stack[Len(stack)].depth + 1
    /\ (IsCastRayColor /\ call.depth > 7) =>
          call.volume_queries = <<>> /\ call.leaf_calls = <<>>
    /\ (NestedCalls > 0 /\ StartDepth = 0) => NestedCalls <= 9

\* Every ray from depth 0 to depth 7 hit geometry with a material, and the
\* ninth activation, at depth 8, returned at the ceiling.
C2_Witness ==
    /\ Len(stack) = 8
    /\ stack[1].depth = 0
    /\ IsCastRayColor
    /\ call.depth = 8
    /\ call.outcome = "ceiling"
    /\ NestedCalls = 9

\* C3: when depth <= 7 and the root geometry reports no hit, the miss shader
\* is invoked exactly once, with the ray of the call, its colour is returned
\* unchanged, and neither a material nor a normal calculation is invoked.
C3_MissDelegatesToMissShader ==
    (IsCastRayColor /\ call.depth <= 7 /\ ~call.intersection.hit) =>
        /\ call.miss_calls = <<call.ray>>
        /\ call.returned
        /\ call.result = MissShader_calculate_color(call.ray)
        /\ call.material_calls = <<>>
        /\ call.normal_calls = 0

\* Every volume was hit and the leaf itself reported no hit.
C3_Witness ==
    /\ IsCastRayColor
    /\ call.depth <= 7
    /\ ~call.intersection.hit
    /\ call.leaf_calls # <<>>
    /\ call.miss_calls # <<>>
    /\ call.result # Color3_default

\* The step intersected the root geometry.
Intersected ==
    \/ call.kind = "cast_ray_distance"
    \/ IsCastRayColor /\ call.outcome # "ceiling"

\* C4: a BoundingGeometry queries its volume first, with the ray it was
\* given.  On a miss it returns no hit and its child is not invoked, so no
\* inner volume is queried and the leaf is not asked.  On a hit it invokes
\* its child once with the same ray and returns the child's result as it is.
\* Through the nest: the leaf is asked only if every enclosing volume was
\* hit, and then the root's result is the leaf's.
C4_BoundingGeometryShortCircuits ==
    Intersected =>
        LET q == call.volume_queries
        IN  /\ Len(q) >= 1
            /\ Len(q) <= NumWrappers
            /\ \A i \in DOMAIN q : q[i].ray = call.ray
            /\ \A i \in DOMAIN q : i < Len(q) => q[i].hit
            /\ ~q[Len(q)].hit =>
                  /\ call.leaf_calls = <<>>
                  /\ call.intersection = NoIntersection
            /\ q[Len(q)].hit =>
                  /\ Len(q) = NumWrappers
                  /\ call.leaf_calls = <<call.ray>>
                  /\ call.intersection = call.leaf_result

\* The outer volume was hit, an inner one was missed: the leaf was not asked.
C4_Witness ==
    /\ Intersected
    /\ Len(call.volume_queries) = 2
    /\ call.volume_queries[1].hit
    /\ ~call.volume_queries[2].hit
    /\ call.leaf_calls = <<>>
    /\ ~call.intersection.hit

\* C5: cast_ray_distance returns no value exactly when the root geometry
\* reports no hit; on a hit it returns max(0, entrance_distance), which is
\* never negative.  It invokes no material and no miss shader.
C5_DistanceClamped ==
    call.kind = "cast_ray_distance" =>
        /\ call.returned
        /\ call.result_some <=> call.intersection.hit
        /\ call.intersection.hit =>
              /\ call.result >= 0
              /\ call.result = (IF call.intersection.entrance_distance < 0
                                THEN 0
                                ELSE call.intersection.entrance_distance)
        /\ call.material_calls = <<>>
        /\ call.miss_calls = <<>>
        /\ call.normal_calls = 0

\* A hit with a negative entrance distance was reported as 0.
C5_Witness ==
    /\ call.kind = "cast_ray_distance"
    /\ call.intersection.hit
    /\ call.intersection.entrance_distance < 0
    /\ call.result_some
    /\ call.result = 0

\* The index the claim selects: the override when greater than 0, else the
\* hit geometry's own material index.
C6_SelectedIndex ==
    IF call.intersection.material_index_override > 0
    THEN call.intersection.material_index_override
    ELSE call.intersection.hit_geometry.material_index

\* C6: on a hit at depth <= 7 the material at the selected index is used.
\* An index outside the collection makes the call return the default colour
\* with no material and no miss shader invoked.  Otherwise that material is
\* invoked once, with the depth of the call, the call waits for it, and
\* what the material returns is what the call returns.
C6_MaterialSelection ==
    /\ (IsCastRayColor /\ call.depth <= 7 /\ call.intersection.hit) =>
          /\ call.miss_calls = <<>>
          /\ C6_SelectedIndex >= Len(materials) =>
                /\ call.returned
                /\ call.result = Color3_default
                /\ call.material_calls = <<>>
          /\ C6_SelectedIndex < Len(materials) =>
                /\ call.material_calls =
                      <<[material |-> C6_SelectedIndex, depth |-> call.depth]>>
                /\ ~call.returned
                /\ stack # <<>>
                /\ stack[Len(stack)] = call.material_calls[1]
    /\ call.kind = "material_return" =>
          /\ call.returned
          /\ Len(call.material_calls) = 1
          /\ call.result = call.material_color

\* No override, and the hit geometry's own index selected the second material.
C6_Witness ==
    /\ IsCastRayColor
    /\ call.intersection.hit
    /\ call.intersection.material_index_override = 0
    /\ call.intersection.hit_geometry.material_index = 1
    /\ call.material_calls = <<[material |-> 1, depth |-> call.depth]>>

-----------------------------------------------------------------------------
(* Properties of BoundingBox (SpecBox, SpecFromPoints).                    *)

\* C7 as stated: every box, the empty box included, contains itself.
C7_EveryBoxContainsItself ==
    (box_call.op = "contains_bounding_box" /\ box_call.arg = box_call.self) =>
        box_call.ret

\* C7, amended: a box contains itself exactly when its minimum is at most its
\* maximum on every axis.  That covers the universal box (true) and the
\* empty box (false).
C7_NormalBoxContainsItself ==
    (box_call.op = "contains_bounding_box" /\ box_call.arg = box_call.self) =>
        (box_call.ret <=> IsNormal(box_call.self))

\* The universal box was asked whether it contains itself, and it does.
C7_Witness ==
    /\ box_call.op = "contains_bounding_box"
    /\ box_call.arg = box_call.self
    /\ box_call.self = new(Vector3_from_value(-Infinity), Vector3_from_value(Infinity))
    /\ box_call.ret

\* C8: A.overlaps_bounding_box(B) equals B.overlaps_bounding_box(A) for all
\* boxes A and B, normal, universal or empty.
C8_OverlapSymmetric ==
    box_call.op = "overlaps_bounding_box" =>
        box_call.ret = overlaps_bounding_box(box_call.arg, box_call.self)

\* Two different boxes that overlap, neither containing the other.
C8_Witness ==
    /\ box_call.op = "overlaps_bounding_box"
    /\ box_call.ret
    /\ box_call.arg # box_call.self
    /\ ~contains_bounding_box(box_call.self, box_call.arg)
    /\ ~contains_bounding_box(box_call.arg, box_call.self)

\* C9: the empty box is the identity of union: add_bounding_box(B) on it
\* leaves exactly B for every finite box B, and add_point(p) leaves the box
\* with minimum = maximum = p.
C9_EmptyBoxIsUnionIdentity ==
    /\ (/\ box_call.op = "add_bounding_box"
        /\ box_call.self = new_inverse_infinity
        /\ IsFinite(box_call.arg)) =>
          bounding_box = box_call.arg
    /\ (/\ box_call.op = "add_point"
        /\ box_call.self = new_inverse_infinity) =>
          /\ bounding_box.minimum = box_call.arg
          /\ bounding_box.maximum = box_call.arg

\* A finite box with distinct corners was added to the empty box.
C9_Witness ==
    /\ box_call.op = "add_bounding_box"
    /\ box_call.self.minimum = Vector3_from_value(Infinity)
    /\ box_call.self.maximum = Vector3_from_value(-Infinity)
    /\ IsFinite(box_call.arg)
    /\ box_call.arg.minimum # box_call.arg.maximum
    /\ bounding_box = box_call.arg

\* add_point folded over points[i..], starting from box b.
RECURSIVE FoldAddPoint(_, _, _)
FoldAddPoint(b, points, i) ==
    IF i > Len(points) THEN b ELSE FoldAddPoint(add_point(b, points[i]), points, i + 1)

\* v is the smallest of the values vs[1..].
IsSmallest(v, vs) == (\E i \in DOMAIN vs : vs[i] = v) /\ (\A i \in DOMAIN vs : vs[i] >= v)

\* v is the largest of the values vs[1..].
IsLargest(v, vs) == (\E i \in DOMAIN vs : vs[i] = v) /\ (\A i \in DOMAIN vs : vs[i] <= v)

\* C10: from_points returns the tightest enclosing box: on every axis the
\* minimum (maximum) is the smallest (largest) coordinate among the points,
\* every point is contained in the result, and the result is what folding
\* add_point over the points from the empty box gives; for no points it is
\* the empty box (minimum = +infinity, maximum = -infinity).
C10_FromPointsTightest ==
    box_call.op = "from_points" =>
        LET points == box_call.arg
            xs == [i \in DOMAIN points |-> points[i].x]
            ys == [i \in DOMAIN points |-> points[i].y]
            zs == [i \in DOMAIN points |-> points[i].z]
        IN  /\ points = <<>> =>
                  /\ bounding_box.minimum = Vector3_from_value(Infinity)
                  /\ bounding_box.maximum = Vector3_from_value(-Infinity)
            /\ points # <<>> =>
                  /\ IsSmallest(bounding_box.minimum.x, xs)
                  /\ IsSmallest(bounding_box.minimum.y, ys)
                  /\ IsSmallest(bounding_box.minimum.z, zs)
                  /\ IsLargest(bounding_box.maximum.x, xs)
                  /\ IsLargest(bounding_box.maximum.y, ys)
                  /\ IsLargest(bounding_box.maximum.z, zs)
            /\ \A i \in DOMAIN points : contains_point(bounding_box, points[i])
            /\ bounding_box = FoldAddPoint(new_inverse_infinity, points, 1)

\* Three points, no one of them both the smallest and the largest on x.
C10_Witness ==
    /\ box_call.op = "from_points"
    /\ Len(box_call.arg) = 3
    /\ box_call.arg[1] # box_call.arg[3]
    /\ bounding_box.minimum.x < bounding_box.maximum.x
    /\ bounding_box.minimum # box_call.arg[1]
    /\ bounding_box.maximum # box_call.arg[1]

-----------------------------------------------------------------------------
(* BoundingBox::ray_intersects, through the inherent method and through    *)
(* the BoundingVolume trait, on every normal box (finite, or universal)    *)
(* and every ray of SlabRays.                                              *)

InitRay ==
    /\ stack = <<>>
    /\ call = NoCall
    /\ bounding_box \in {b \in Boxes : IsNormal(b)}
    /\ box_call = NoBoxCall

RayIntersects ==
    /\ BoxReady
    /\ \E ray \in SlabRays :
        BoxCall("ray_intersects", ray, ray_intersects(bounding_box, ray), bounding_box)

BoundingVolumeRayIntersects ==
    /\ BoxReady
    /\ \E ray \in SlabRays :
        BoxCall("BoundingVolume::ray_intersects", ray,
                BoundingVolume_ray_intersects(bounding_box, ray), bounding_box)

NextRay ==
    \/ RayIntersects
    \/ BoundingVolumeRayIntersects

SpecRay == InitRay /\ [][NextRay]_vars

-----------------------------------------------------------------------------
(* Properties of BoundingBox::ray_intersects (SpecRay).                    *)

IsRayIntersects ==
    box_call.op \in {"ray_intersects", "BoundingVolume::ray_intersects"}

\* origin + t * direction
PointAlong(ray, t) ==
    Vector3_new(ray.position.x + t * ray.direction.x,
                ray.position.y + t * ray.direction.y,
                ray.position.z + t * ray.direction.z)

\* Some point origin + t * direction with t >= 0 lies inside the box, bounds
\* inclusive.  Corners, origins and directions are integers and direction
\* components are -1, 0 or 1, so the values of t that qualify form an
\* interval with integer ends that, for a finite box, lies within
\* 0..MaxCoord; the universal box holds the origin itself (t = 0).
HitsGeometrically(b, ray) ==
    \E t \in 0..MaxCoord : contains_point(b, PointAlong(ray, t))

\* The ray runs parallel to an axis' slab (direction zero on that axis) with
\* its origin exactly on one of the two faces of a slab of non-zero width.
OnFacePlane(lo, hi, origin, direction) ==
    direction = 0 /\ lo # hi /\ (origin = lo \/ origin = hi)

RayInAFacePlane(b, ray) ==
    \/ OnFacePlane(b.minimum.x, b.maximum.x, ray.position.x, ray.direction.x)
    \/ OnFacePlane(b.minimum.y, b.maximum.y, ray.position.y, ray.direction.y)
    \/ OnFacePlane(b.minimum.z, b.maximum.z, ray.position.z, ray.direction.z)

\* C11: for every normal box and every ray with a non-zero direction, also
\* with one or two direction components exactly zero and with the origin on
\* a box face, ray_intersects is true if and only if some point
\* origin + t * direction with t >= 0 lies inside the box (bounds inclusive).
C11_RayIntersectsIffGeometricHit ==
    IsRayIntersects =>
        (box_call.ret <=> HitsGeometrically(box_call.self, box_call.arg))

\* What the slab test does decide (not C11): it answers false whenever the
\* ray lies in the plane of a face of a slab of non-zero width, and agrees
\* with the geometry everywhere else.
RayIntersectsOffFacePlanes ==
    IsRayIntersects =>
        (box_call.ret <=>
            /\ HitsGeometrically(box_call.self, box_call.arg)
            /\ ~RayInAFacePlane(box_call.self, box_call.arg))

====
